---- MODULE Spec2Model ----
(***************************************************************************)
(* ICS3 connection handshake of centauri's ibc modules: the OpenAck      *)
(* handler (conn_open_ack.rs, `process`) together with the context it      *)
(* reads (connection store, host height, light client) and the other      *)
(* handshake steps that write the connection ends it works on.            *)
(***************************************************************************)
EXTENDS Integers, Sequences, FiniteSets, TLC

VARIABLES store, host, client, inflight, out, acked

vars == <<store, host, client, inflight, out, acked>>

(***************************************************************************)
(* Bounds of the model.                                                    *)
(***************************************************************************)
\* Host heights range over 1..MaxHeight.
MaxHeight == 4
\* Number of host blocks a chain keeps (host_oldest_height = host - MaxHistory + 1).
MaxHistory == 2

(***************************************************************************)
(* Data types.                                                             *)
(***************************************************************************)
\* Option<T>
None == <<>>
Some(x) == <<x>>

Chains == {"A", "B"}
Other(ch) == IF ch = "A" THEN "B" ELSE "A"

\* The light client a chain hosts for its peer, and the chain's key prefix.
ClientIdOf(ch) == IF ch = "A" THEN "client-on-A" ELSE "client-on-B"
PrefixOf(ch) == IF ch = "A" THEN "ibc-A" ELSE "ibc-B"

Versions == {1, 2}
Heights == 1..MaxHeight
\* The connection identifiers a chain hands out (connection-0, connection-1).
ConnIds == {0, 1}

Range(s) == {s[i] : i \in DOMAIN s}

Counterparty(client_id, connection_id, prefix) ==
    [client_id |-> client_id, connection_id |-> connection_id, prefix |-> prefix]

ConnectionEnd(state, client_id, counterparty, versions, delay_period) ==
    [state |-> state, client_id |-> client_id, counterparty |-> counterparty,
     versions |-> versions, delay_period |-> delay_period]

\* A store (or a committed root) with no connection end.
EmptyStore == [i \in {} |-> None]

\* Errors: kind, the connection id carried (if any), the text carried (if any).
Error(kind, connection_id, text) ==
    [kind |-> kind, connection_id |-> connection_id, text |-> text]
NoError == Error("None", None, "")

\* HandlerResult: Err(e) or Ok(HandlerOutput{result, log, events}).
Err(e) == [ok |-> FALSE, err |-> e, result |-> None, events |-> <<>>, log |-> <<>>]
Ok(result, events, log) ==
    [ok |-> TRUE, err |-> NoError, result |-> Some(result), events |-> events,
     log |-> log]

(***************************************************************************)
(* ReaderContext: what a handler reads of its chain.                       *)
(***************************************************************************)
\* The context snapshot handed to a handler running on chain ch.
Ctx(ch) ==
    [chain_id |-> ch, connections |-> store[ch], host_height |-> host[ch],
     consensus |-> client[ch]]

host_height(ctx) == ctx.host_height

\* Oldest host height the chain still keeps.
host_oldest_height(ctx) ==
    IF ctx.host_height > MaxHistory THEN ctx.host_height - MaxHistory + 1 ELSE 1

commitment_prefix(ctx) == PrefixOf(ctx.chain_id)

\* Mutant: a missing connection is reported as a mismatch.
connection_end_error_conflated(ctx, id) ==
    IF id \in DOMAIN ctx.connections
    THEN NoError
    ELSE Error("ConnectionMismatch", Some(id), "")

\* ctx.connection_end(id): the stored end, or ConnectionNotFound carrying id.
connection_end_error(ctx, id) ==
    IF id \in DOMAIN ctx.connections
    THEN NoError
    ELSE Error("ConnectionNotFound", Some(id), "")

connection_end(ctx, id) == ctx.connections[id]

\* ctx.validate_self_client: the client state must describe the host chain.
validate_self_client(ctx, client_state) ==
    IF client_state = ctx.chain_id
    THEN NoError
    ELSE Error("InvalidSelfClient", None, "")

(***************************************************************************)
(* Proof verifier (handler/verify.rs).                                     *)
(***************************************************************************)
\* The claimed height is neither ahead of the host nor pruned.
check_client_consensus_height(ctx, claimed_height) ==
    IF claimed_height > host_height(ctx)
    THEN Error("InvalidConsensusHeight", None, "")
    ELSE IF claimed_height < host_oldest_height(ctx)
    THEN Error("StaleConsensusHeight", None, "")
    ELSE NoError

\* The local light client holds a consensus state (a committed root of the
\* counterparty) for the height the proof was made at.
has_consensus_state(ctx, proof_height) == ctx.consensus.height = proof_height

\* Membership of expected_conn under the counterparty's connection path.
verify_connection_proof(ctx, height, conn_end, expected_conn, proof_height, proof) ==
    IF ~has_consensus_state(ctx, proof_height)
    THEN Error("ConsensusStateVerificationFailure", None, "")
    ELSE IF conn_end.counterparty.connection_id = None
    THEN Error("InvalidCounterparty", None, "")
    ELSE LET id == conn_end.counterparty.connection_id[1]
             root == ctx.consensus.root
         IN IF /\ proof = "Genuine"
               /\ id \in DOMAIN root
               /\ root[id] = expected_conn
            THEN NoError
            ELSE Error("VerifyConnectionState", None, "")

\* Membership of the client state the counterparty holds for this chain.
verify_client_proof(ctx, height, conn_end, client_state, proof_height, proof) ==
    IF ~has_consensus_state(ctx, proof_height)
    THEN Error("ConsensusStateVerificationFailure", None, "")
    ELSE IF proof = "Genuine"
    THEN NoError
    ELSE Error("ClientStateVerificationFailure", None, "")

\* Membership of the consensus state the counterparty holds for this chain.
verify_consensus_proof(ctx, height, conn_end, proof) ==
    IF ~has_consensus_state(ctx, height)
    THEN Error("ConsensusStateVerificationFailure", None, "")
    ELSE IF proof.proof = "Genuine"
    THEN NoError
    ELSE Error("ConsensusProofVerificationFailure", None, "")

(***************************************************************************)
(* MsgConnectionOpenAck and its handler (conn_open_ack.rs).                *)
(***************************************************************************)
MsgConnectionOpenAck(connection_id, cp_connection_id, client_state, proofs, version) ==
    [connection_id |-> connection_id,
     counterparty_connection_id |-> cp_connection_id,
     client_state |-> client_state, proofs |-> proofs, version |-> version]

Proofs(height, object_proof, client_proof, consensus_proof) ==
    [height |-> height, object_proof |-> object_proof,
     client_proof |-> client_proof, consensus_proof |-> consensus_proof]

ConsensusProof(height, proof) == [height |-> height, proof |-> proof]

\* msg.consensus_height(): the height embedded in the consensus proof.
consensus_height(msg) ==
    IF msg.proofs.consensus_proof = None
    THEN 0
    ELSE msg.proofs.consensus_proof[1].height

\* Mutant: the freshness check is left out.
consensus_height_error_skipped(ctx, msg) == NoError

\* The freshness check runs only when a consensus proof is supplied.
consensus_height_error(ctx, msg) ==
    IF msg.proofs.consensus_proof # None
    THEN check_client_consensus_height(ctx, consensus_height(msg))
    ELSE NoError

\* Mutant: an Open end holding the version is accepted again.
state_is_consistent_open(conn_end, msg) ==
    \/ /\ conn_end.state \in {"Init", "Open"}
       /\ msg.version \in Range(conn_end.versions)
    \/ /\ conn_end.state = "TryOpen"
       /\ Len(conn_end.versions) >= 1
       /\ conn_end.versions[1] = msg.version

\* Mutant: a TryOpen end is accepted when it holds the version anywhere.
state_is_consistent_contains(conn_end, msg) ==
    /\ conn_end.state \in {"Init", "TryOpen"}
    /\ msg.version \in Range(conn_end.versions)

state_is_consistent(conn_end, msg) ==
    \/ /\ conn_end.state = "Init"
       /\ msg.version \in Range(conn_end.versions)
    \/ /\ conn_end.state = "TryOpen"
       /\ Len(conn_end.versions) >= 1
       /\ conn_end.versions[1] = msg.version

\* Mutant: the stored counterparty is kept as it is.
ack_counterparty_kept(prev_counterparty, msg) ==
    prev_counterparty

\* The counterparty rebuilt with the message's connection id.
ack_counterparty(prev_counterparty, msg) ==
    Counterparty(prev_counterparty.client_id,
                 Some(msg.counterparty_connection_id),
                 prev_counterparty.prefix)

\* Mutant: the working copy is put back to Init.
open_conn_end_init(old, msg) ==
    [old EXCEPT !.state = "Init",
                !.versions = <<msg.version>>,
                !.counterparty = ack_counterparty(old.counterparty, msg)]

\* Mutant: set_version is left out.
open_conn_end_no_version(old, msg) ==
    [old EXCEPT !.state = "Open",
                !.counterparty = ack_counterparty(old.counterparty, msg)]

\* The working copy after set_state, set_version and set_counterparty.
open_conn_end(old, msg) ==
    [old EXCEPT !.state = "Open",
                !.versions = <<msg.version>>,
                !.counterparty = ack_counterparty(old.counterparty, msg)]

\* Mutant: the expected end's delay period is not taken from the local end.
expected_conn_no_delay(ctx, conn_end, msg) ==
    ConnectionEnd("TryOpen",
                  conn_end.counterparty.client_id,
                  Counterparty(conn_end.client_id, Some(msg.connection_id),
                               commitment_prefix(ctx)),
                  <<msg.version>>,
                  0)

\* The end the counterparty must have committed.
expected_conn(ctx, conn_end, msg) ==
    ConnectionEnd("TryOpen",
                  conn_end.counterparty.client_id,
                  Counterparty(conn_end.client_id, Some(msg.connection_id),
                               commitment_prefix(ctx)),
                  <<msg.version>>,
                  conn_end.delay_period)

\* Mutant: one text for whichever artefact is missing.
missing_artefact_error_one_text(msg) ==
    IF \/ msg.client_state = None
       \/ msg.proofs.client_proof = None
       \/ msg.proofs.consensus_proof = None
    THEN Error("ImplementationSpecific", None,
               "proof is required in connOpenTry")
    ELSE NoError

\* The three mandatory artefacts, in the order the handler unwraps them.
missing_artefact_error(msg) ==
    IF msg.client_state = None
    THEN Error("ImplementationSpecific", None,
               "client state is required in connOpenTry")
    ELSE IF msg.proofs.client_proof = None
    THEN Error("ImplementationSpecific", None,
               "client proof is required in connOpenTry")
    ELSE IF msg.proofs.consensus_proof = None
    THEN Error("ImplementationSpecific", None,
               "consensus proof is required in connOpenTry")
    ELSE NoError

\* Mutant: the proofs are verified at the host height, not at the height
\* the message gives for them.
verification_error_at_host_height(ctx, msg, conn_end) ==
    LET self == validate_self_client(ctx, msg.client_state[1])
        conn == verify_connection_proof(ctx, host_height(ctx), conn_end,
                    expected_conn(ctx, conn_end, msg), host_height(ctx),
                    msg.proofs.object_proof)
        clnt == verify_client_proof(ctx, host_height(ctx), conn_end,
                    msg.client_state[1], host_height(ctx),
                    msg.proofs.client_proof[1])
        cons == verify_consensus_proof(ctx, host_height(ctx), conn_end,
                    msg.proofs.consensus_proof[1])
    IN IF self # NoError
       THEN Error("Ics02Client", None, self.kind)
       ELSE IF conn # NoError THEN conn
       ELSE IF clnt # NoError THEN clnt
       ELSE cons

\* Mutant: the client-state proof is verified before the connection proof.
verification_error_client_first(ctx, msg, conn_end) ==
    LET self == validate_self_client(ctx, msg.client_state[1])
        conn == verify_connection_proof(ctx, msg.proofs.height, conn_end,
                    expected_conn(ctx, conn_end, msg), msg.proofs.height,
                    msg.proofs.object_proof)
        clnt == verify_client_proof(ctx, msg.proofs.height, conn_end,
                    msg.client_state[1], msg.proofs.height,
                    msg.proofs.client_proof[1])
        cons == verify_consensus_proof(ctx, msg.proofs.height, conn_end,
                    msg.proofs.consensus_proof[1])
    IN IF self # NoError
       THEN Error("Ics02Client", None, self.kind)
       ELSE IF clnt # NoError THEN clnt
       ELSE IF conn # NoError THEN conn
       ELSE cons

\* Mutant: the client-state membership proof is not verified.
verification_error_no_client_proof(ctx, msg, conn_end) ==
    LET self == validate_self_client(ctx, msg.client_state[1])
        conn == verify_connection_proof(ctx, msg.proofs.height, conn_end,
                    expected_conn(ctx, conn_end, msg), msg.proofs.height,
                    msg.proofs.object_proof)
        cons == verify_consensus_proof(ctx, msg.proofs.height, conn_end,
                    msg.proofs.consensus_proof[1])
    IN IF self # NoError
       THEN Error("Ics02Client", None, self.kind)
       ELSE IF conn # NoError THEN conn
       ELSE cons

\* validate_self_client, then the three membership proofs; first error wins.
verification_error(ctx, msg, conn_end) ==
    LET self == validate_self_client(ctx, msg.client_state[1])
        conn == verify_connection_proof(ctx, msg.proofs.height, conn_end,
                    expected_conn(ctx, conn_end, msg), msg.proofs.height,
                    msg.proofs.object_proof)
        clnt == verify_client_proof(ctx, msg.proofs.height, conn_end,
                    msg.client_state[1], msg.proofs.height,
                    msg.proofs.client_proof[1])
        cons == verify_consensus_proof(ctx, msg.proofs.height, conn_end,
                    msg.proofs.consensus_proof[1])
    IN IF self # NoError
       THEN Error("Ics02Client", None, self.kind)
       ELSE IF conn # NoError THEN conn
       ELSE IF clnt # NoError THEN clnt
       ELSE cons

\* Mutant: the event carries the proof height.
event_attributes_proof_height(ctx, msg, conn_end) ==
    [kind |-> "OpenAckConnection",
     connection_id |-> Some(msg.connection_id),
     height |-> msg.proofs.height,
     client_id |-> conn_end.client_id,
     counterparty_connection_id |-> conn_end.counterparty.connection_id,
     counterparty_client_id |-> conn_end.counterparty.client_id]

event_attributes(ctx, msg, conn_end) ==
    [kind |-> "OpenAckConnection",
     connection_id |-> Some(msg.connection_id),
     height |-> host_height(ctx),
     client_id |-> conn_end.client_id,
     counterparty_connection_id |-> conn_end.counterparty.connection_id,
     counterparty_client_id |-> conn_end.counterparty.client_id]

ConnectionResult(connection_id, connection_id_state, conn_end) ==
    [connection_id |-> connection_id,
     connection_id_state |-> connection_id_state,
     connection_end |-> conn_end]

\* Mutant: the result says the connection id is new.
ack_result_new(msg, conn_end) ==
    ConnectionResult(msg.connection_id, "New", conn_end)

ack_result(msg, conn_end) ==
    ConnectionResult(msg.connection_id, "Reused", conn_end)

process(ctx, msg) ==
    IF consensus_height_error(ctx, msg) # NoError
    THEN Err(consensus_height_error(ctx, msg))
    ELSE IF connection_end_error(ctx, msg.connection_id) # NoError
    THEN Err(connection_end_error(ctx, msg.connection_id))
    ELSE IF ~state_is_consistent(connection_end(ctx, msg.connection_id), msg)
    THEN Err(Error("ConnectionMismatch", Some(msg.connection_id), ""))
    ELSE LET conn_end == open_conn_end(connection_end(ctx, msg.connection_id), msg)
         IN IF missing_artefact_error(msg) # NoError
            THEN Err(missing_artefact_error(msg))
            ELSE IF verification_error(ctx, msg, conn_end) # NoError
            THEN Err(verification_error(ctx, msg, conn_end))
            ELSE Ok(ack_result(msg, conn_end),
                    <<event_attributes(ctx, msg, conn_end)>>,
                    <<"success: connection verification passed">>)

(***************************************************************************)
(* The caller: dispatch a message to its handler, then commit the result.  *)
(***************************************************************************)
NoMsg == [handler |-> "None"]
NotRun == [handler |-> "None", chain |-> "A", connection_id |-> None,
           res |-> Err(NoError), replay |-> FALSE]
NoAck == [chain |-> "A", msg |-> None]

\* What the caller records of a handler's return.
Returned(handler, ch, connection_id, res, replay) ==
    [handler |-> handler, chain |-> ch, connection_id |-> connection_id,
     res |-> res, replay |-> replay]

\* store_connection_result: the end of a successful result replaces (or
\* creates) the stored end under the result's connection id.
store_connection_result(connections, result) ==
    [i \in DOMAIN connections \cup {result.connection_id} |->
        IF i = result.connection_id
        THEN result.connection_end
        ELSE connections[i]]

(***************************************************************************)
(* SpecAck: `process` applied to contexts and messages drawn from bounded  *)
(* sets.  Chain A runs the handler; chain B's store is the committed root  *)
(* A's light client holds, at height ClientHeight.                         *)
(***************************************************************************)
ClientHeight == MaxHeight - 1

AckStates == {"Uninitialized", "Init", "TryOpen", "Open"}
AckVersionLists == {<<>>, <<1>>, <<1, 2>>}

\* A connection end stored on chain A.
StoredEnd(state, versions, cp_connection_id, delay_period) ==
    ConnectionEnd(state, ClientIdOf("A"),
                  Counterparty(ClientIdOf("B"), cp_connection_id, PrefixOf("B")),
                  versions, delay_period)

\* A connection end committed on chain B, as A's light client sees it.
CommittedEnd(state, cp_connection_id, versions, delay_period) ==
    ConnectionEnd(state, ClientIdOf("B"),
                  Counterparty(ClientIdOf("A"), cp_connection_id, PrefixOf("A")),
                  versions, delay_period)

OneEnd(e) == [i \in {0} |-> e]

AckInput(st, h, root, msg) == [store |-> st, host |-> h, root |-> root, msg |-> msg]

\* Preconditions in full (stored end, host height, freshness, presence of the
\* artefacts) against verification inputs that all pass or all fail.
AckInputsPre ==
    { AckInput(st, h,
               IF good THEN OneEnd(CommittedEnd("TryOpen", Some(0), <<v>>, 0))
                       ELSE EmptyStore,
               MsgConnectionOpenAck(id, 0, cs,
                   Proofs(IF good THEN ClientHeight ELSE MaxHeight,
                          IF good THEN "Genuine" ELSE "Forged", cp, kp),
                   v)) :
        st \in {EmptyStore} \cup
               { OneEnd(StoredEnd(s, vs, c, 0)) :
                   s \in AckStates, vs \in AckVersionLists, c \in {None, Some(1)} },
        h \in Heights,
        id \in {0, 1},
        v \in Versions,
        cs \in {None, Some("A")},
        cp \in {None, Some("Genuine")},
        kp \in {None} \cup { Some(ConsensusProof(kh, "Genuine")) : kh \in 1..(MaxHeight + 1) },
        good \in BOOLEAN }

\* Verification inputs in full (client state, the three proofs, the proof
\* height, the committed root) against stored ends in Init or TryOpen.
AckInputsVerify ==
    { AckInput(OneEnd(StoredEnd(s, vs, c, d)), h, root,
               MsgConnectionOpenAck(0, x, Some(cs),
                   Proofs(ph, op, Some(cp), Some(ConsensusProof(h, kp))),
                   v)) :
        s \in {"Init", "TryOpen"},
        vs \in {<<1, 2>>},
        c \in {None, Some(1)},
        d \in {0, 1},
        h \in Heights,
        root \in {EmptyStore} \cup
                 { OneEnd(CommittedEnd(rs, Some(ri), rv, rd)) :
                     rs \in {"Init", "TryOpen", "Open"}, ri \in {0, 1},
                     rv \in {<<1>>, <<1, 2>>}, rd \in {0, 1} },
        x \in {0, 1},
        cs \in {"A", "B"},
        ph \in Heights,
        op \in {"Genuine", "Forged"},
        cp \in {"Genuine", "Forged"},
        kp \in {"Genuine", "Forged"},
        v \in {1} }

AckInputs == AckInputsPre \cup AckInputsVerify

InitAck ==
    \E in \in AckInputs :
        /\ store = [ch \in Chains |-> IF ch = "A" THEN in.store ELSE in.root]
        /\ host = [ch \in Chains |-> IF ch = "A" THEN in.host ELSE ClientHeight]
        /\ client = [ch \in Chains |->
                        IF ch = "A"
                        THEN [height |-> ClientHeight, root |-> in.root]
                        ELSE [height |-> 1, root |-> EmptyStore]]
        /\ inflight = [handler |-> "Ack", chain |-> "A", msg |-> in.msg]
        /\ out = NotRun
        /\ acked = NoAck

\* Mutant: the handler works on the stored end itself, not on a copy.
AckProcess_in_place ==
    /\ inflight.handler = "Ack"
    /\ out.handler = "None"
    /\ out' = Returned("Ack", inflight.chain, Some(inflight.msg.connection_id),
                       process(Ctx(inflight.chain), inflight.msg), FALSE)
    /\ store' =
          IF /\ consensus_height_error(Ctx(inflight.chain), inflight.msg) = NoError
             /\ inflight.msg.connection_id \in DOMAIN store[inflight.chain]
             /\ state_is_consistent(store[inflight.chain][inflight.msg.connection_id],
                                    inflight.msg)
          THEN [store EXCEPT ![inflight.chain][inflight.msg.connection_id] =
                   open_conn_end(@, inflight.msg)]
          ELSE store
    /\ UNCHANGED <<host, client, inflight, acked>>

\* dispatch: the message in flight is handed to `process`; nothing is stored.
AckProcess ==
    /\ inflight.handler = "Ack"
    /\ out.handler = "None"
    /\ out' = Returned("Ack", inflight.chain, Some(inflight.msg.connection_id),
                       process(Ctx(inflight.chain), inflight.msg), FALSE)
    /\ UNCHANGED <<store, host, client, inflight, acked>>

\* The caller commits a successful result to the store.
AckCommit ==
    /\ inflight.handler = "Ack"
    /\ out.handler = "Ack"
    /\ out.res.ok
    /\ store' = [store EXCEPT ![out.chain] =
                    store_connection_result(store[out.chain], out.res.result[1])]
    /\ inflight' = NoMsg
    /\ acked' = [chain |-> out.chain, msg |-> Some(inflight.msg)]
    /\ UNCHANGED <<host, client, out>>

\* After the commit the chain keeps producing blocks; what the last call
\* returned has been consumed by then.
AckAdvance ==
    /\ inflight = NoMsg
    /\ acked.msg # None
    /\ host[acked.chain] < MaxHeight
    /\ host' = [host EXCEPT ![acked.chain] = host[acked.chain] + 1]
    /\ out' = NotRun
    /\ UNCHANGED <<store, client, inflight, acked>>

\* The Ack that was applied is submitted again (a duplicate); the caller
\* would commit its result if it returned one.
AckReplay ==
    /\ inflight = NoMsg
    /\ acked.msg # None
    /\ LET res == process(Ctx(acked.chain), acked.msg[1])
       IN /\ out' = Returned("Ack", acked.chain,
                             Some(acked.msg[1].connection_id), res, TRUE)
          /\ store' = IF res.ok
                      THEN [store EXCEPT ![acked.chain] =
                               store_connection_result(store[acked.chain],
                                                       res.result[1])]
                      ELSE store
    /\ UNCHANGED <<host, client, inflight, acked>>

NextAck == AckProcess \/ AckCommit \/ AckAdvance \/ AckReplay

SpecAck == InitAck /\ [][NextAck]_vars

(***************************************************************************)
(* The other handshake steps (Init, Try, Confirm), which create and        *)
(* advance the connection ends the Ack handler works on.                   *)
(***************************************************************************)
\* Versions every chain supports.
SupportedVersions == Versions

\* The identifier a new connection end gets: the connection counter.
connection_counter(ctx) == Cardinality(DOMAIN ctx.connections)

client_exists(ctx, client_id) == client_id = ClientIdOf(ctx.chain_id)

MsgConnectionOpenInit(client_id, counterparty, versions, delay_period) ==
    [client_id |-> client_id, counterparty |-> counterparty,
     versions |-> versions, delay_period |-> delay_period]

\* Init: a new end in state Init, counterparty connection id None.
init_process(ctx, msg) ==
    IF ~client_exists(ctx, msg.client_id)
    THEN Err(Error("Ics02Client", None, "client not found"))
    ELSE LET new_end == ConnectionEnd("Init", msg.client_id,
                            Counterparty(msg.counterparty.client_id, None,
                                         msg.counterparty.prefix),
                            msg.versions, msg.delay_period)
             id == connection_counter(ctx)
         IN Ok(ConnectionResult(id, "New", new_end),
               <<[kind |-> "OpenInitConnection",
                  connection_id |-> Some(id),
                  height |-> host_height(ctx),
                  client_id |-> new_end.client_id,
                  counterparty_connection_id |-> None,
                  counterparty_client_id |-> new_end.counterparty.client_id]>>,
               <<"success: no connection with this id exists">>)

MsgConnectionOpenTry(previous, client_id, counterparty, cp_versions, delay_period, client_state, proofs) ==
    [previous_connection_id |-> previous, client_id |-> client_id,
     counterparty |-> counterparty, counterparty_versions |-> cp_versions,
     delay_period |-> delay_period, client_state |-> client_state,
     proofs |-> proofs]

\* First version in the counterparty's offered order that is supported.
RECURSIVE pick_version(_)
pick_version(cp_versions) ==
    IF cp_versions = <<>>
    THEN None
    ELSE IF Head(cp_versions) \in SupportedVersions
    THEN Some(Head(cp_versions))
    ELSE pick_version(Tail(cp_versions))

\* The prior end a Try names must be in Init with overlapping versions.
try_prior_error(ctx, msg) ==
    IF msg.previous_connection_id = None
    THEN NoError
    ELSE LET prev == msg.previous_connection_id[1]
         IN IF prev \notin DOMAIN ctx.connections
            THEN Error("ConnectionNotFound", Some(prev), "")
            ELSE IF /\ ctx.connections[prev].state = "Init"
                    /\ Range(ctx.connections[prev].versions)
                          \cap Range(msg.counterparty_versions) # {}
            THEN NoError
            ELSE Error("ConnectionMismatch", Some(prev), "")

\* The working copy of a Try: the prior Init end, or a new end from the message.
try_working_end(ctx, msg) ==
    IF msg.previous_connection_id = None
    THEN ConnectionEnd("Init", msg.client_id, msg.counterparty,
                       msg.counterparty_versions, msg.delay_period)
    ELSE ctx.connections[msg.previous_connection_id[1]]

\* The end a Try requires the counterparty to have committed: its Init end.
try_expected_conn(ctx, working, msg) ==
    ConnectionEnd("Init",
                  working.counterparty.client_id,
                  Counterparty(working.client_id, None, commitment_prefix(ctx)),
                  msg.counterparty_versions,
                  working.delay_period)

try_process(ctx, msg) ==
    IF ~client_exists(ctx, msg.client_id)
    THEN Err(Error("Ics02Client", None, "client not found"))
    ELSE IF missing_artefact_error(msg) # NoError
    THEN Err(Error("MissingProofArtifact", None, ""))
    ELSE IF consensus_height_error(ctx, msg) # NoError
    THEN Err(consensus_height_error(ctx, msg))
    ELSE IF try_prior_error(ctx, msg) # NoError
    THEN Err(try_prior_error(ctx, msg))
    ELSE LET working == [try_working_end(ctx, msg) EXCEPT
                            !.counterparty.connection_id =
                                msg.counterparty.connection_id]
             id == IF msg.previous_connection_id = None
                   THEN connection_counter(ctx)
                   ELSE msg.previous_connection_id[1]
             h == msg.proofs.height
             conn == verify_connection_proof(ctx, h, working,
                         try_expected_conn(ctx, working, msg), h,
                         msg.proofs.object_proof)
             clnt == verify_client_proof(ctx, h, working, msg.client_state[1],
                         h, msg.proofs.client_proof[1])
             cons == verify_consensus_proof(ctx, h, working,
                         msg.proofs.consensus_proof[1])
             picked == pick_version(msg.counterparty_versions)
         IN IF conn # NoError THEN Err(conn)
            ELSE IF clnt # NoError THEN Err(clnt)
            ELSE IF cons # NoError THEN Err(cons)
            ELSE IF picked = None
            THEN Err(Error("NoCommonVersion", None, ""))
            ELSE LET new_end == [working EXCEPT !.state = "TryOpen",
                                                !.versions = <<picked[1]>>]
                 IN Ok(ConnectionResult(id,
                           IF msg.previous_connection_id = None
                           THEN "New" ELSE "Reused",
                           new_end),
                       <<[kind |-> "OpenTryConnection",
                          connection_id |-> Some(id),
                          height |-> host_height(ctx),
                          client_id |-> new_end.client_id,
                          counterparty_connection_id |->
                              new_end.counterparty.connection_id,
                          counterparty_client_id |->
                              new_end.counterparty.client_id]>>,
                       <<"success: connection verification passed">>)

MsgConnectionOpenConfirm(connection_id, proofs) ==
    [connection_id |-> connection_id, proofs |-> proofs]

\* The end a Confirm requires the counterparty to have committed: Open, the
\* agreed version, pointing back at this connection.
confirm_expected_conn(ctx, conn_end, msg) ==
    ConnectionEnd("Open",
                  conn_end.counterparty.client_id,
                  Counterparty(conn_end.client_id, Some(msg.connection_id),
                               commitment_prefix(ctx)),
                  conn_end.versions,
                  conn_end.delay_period)

confirm_process(ctx, msg) ==
    IF connection_end_error(ctx, msg.connection_id) # NoError
    THEN Err(connection_end_error(ctx, msg.connection_id))
    ELSE LET old == connection_end(ctx, msg.connection_id)
             h == msg.proofs.height
             conn == verify_connection_proof(ctx, h, old,
                         confirm_expected_conn(ctx, old, msg), h,
                         msg.proofs.object_proof)
         IN IF old.state # "TryOpen"
            THEN Err(Error("ConnectionMismatch", Some(msg.connection_id), ""))
            ELSE IF conn # NoError THEN Err(conn)
            ELSE LET new_end == [old EXCEPT !.state = "Open"]
                 IN Ok(ConnectionResult(msg.connection_id, "Reused", new_end),
                       <<[kind |-> "OpenConfirmConnection",
                          connection_id |-> Some(msg.connection_id),
                          height |-> host_height(ctx),
                          client_id |-> new_end.client_id,
                          counterparty_connection_id |->
                              new_end.counterparty.connection_id,
                          counterparty_client_id |->
                              new_end.counterparty.client_id]>>,
                       <<"success: connection verification passed">>)

(***************************************************************************)
(* Spec: two chains, A and B, each running the four handlers on the        *)
(* messages a relayer or anyone else submits, in any order and any number  *)
(* of times.  The caller commits every successful result.                  *)
(***************************************************************************)
InitVersionLists == {<<1>>, <<2, 1>>}
Delays == {0}

\* Proofs a submitter can attach for a chain's light client: made at the
\* height of the client's consensus state.
NetProofs(ch, consensus_proof) ==
    Proofs(client[ch].height, "Genuine", Some("Genuine"), consensus_proof)

\* A consensus proof for the host's latest height, or for one ahead of it.
NetConsensusProofs(ch) ==
    {Some(ConsensusProof(host[ch], "Genuine")),
     Some(ConsensusProof(host[ch] + 1, "Genuine"))}

Init ==
    /\ store = [ch \in Chains |-> EmptyStore]
    /\ host = [ch \in Chains |-> 1]
    /\ client = [ch \in Chains |-> [height |-> 1, root |-> EmptyStore]]
    /\ inflight = NoMsg
    /\ out = NotRun
    /\ acked = NoAck

\* The caller: record what the handler returned and commit a successful
\* result.  A committed message makes a block of its chain, and the relayer
\* brings the counterparty's light client up to that block before anything
\* else is delivered.
Commit(handler, ch, connection_id, res) ==
    /\ res.ok => host[ch] < MaxHeight
    /\ out' = Returned(handler, ch, connection_id, res, FALSE)
    /\ store' = IF res.ok
                THEN [store EXCEPT ![ch] =
                         store_connection_result(store[ch], res.result[1])]
                ELSE store
    /\ host' = IF res.ok THEN [host EXCEPT ![ch] = host[ch] + 1] ELSE host
    /\ client' = [c \in Chains |->
                    [height |-> host'[Other(c)], root |-> store'[Other(c)]]]

Deliver(handler, ch, connection_id, res) ==
    /\ Commit(handler, ch, connection_id, res)
    /\ UNCHANGED <<inflight, acked>>

DeliverInit(ch) ==
    /\ connection_counter(Ctx(ch)) \in ConnIds
    /\ \E vs \in InitVersionLists, d \in Delays :
          LET msg == MsgConnectionOpenInit(ClientIdOf(ch),
                         Counterparty(ClientIdOf(Other(ch)), None, PrefixOf(Other(ch))),
                         vs, d)
          IN Deliver("Init", ch, Some(connection_counter(Ctx(ch))),
                     init_process(Ctx(ch), msg))

DeliverTry(ch) ==
    \E prev \in {None} \cup {Some(i) : i \in ConnIds},
       x \in ConnIds, vs \in InitVersionLists, d \in Delays :
          /\ prev = None => connection_counter(Ctx(ch)) \in ConnIds
          /\ LET msg == MsgConnectionOpenTry(prev, ClientIdOf(ch),
                            Counterparty(ClientIdOf(Other(ch)), Some(x), PrefixOf(Other(ch))),
                            vs, d, Some(ch),
                            NetProofs(ch, Some(ConsensusProof(host[ch], "Genuine"))))
             IN Deliver("Try", ch,
                        IF prev = None THEN Some(connection_counter(Ctx(ch))) ELSE prev,
                        try_process(Ctx(ch), msg))

DeliverAck(ch) ==
    \E id \in ConnIds, x \in ConnIds, v \in Versions, kp \in NetConsensusProofs(ch) :
          LET msg == MsgConnectionOpenAck(id, x, Some(ch), NetProofs(ch, kp), v)
          IN Deliver("Ack", ch, Some(id), process(Ctx(ch), msg))

DeliverConfirm(ch) ==
    \E id \in ConnIds :
          LET msg == MsgConnectionOpenConfirm(id, NetProofs(ch, None))
          IN Deliver("Confirm", ch, Some(id), confirm_process(Ctx(ch), msg))

Next ==
    \E ch \in Chains :
        \/ DeliverInit(ch)
        \/ DeliverTry(ch)
        \/ DeliverAck(ch)
        \/ DeliverConfirm(ch)

Spec == Init /\ [][Next]_vars

(***************************************************************************)
(* SpecRun: one honest relayer run Init on A, Try on B, Ack on A, Confirm  *)
(* on B.  Every message is built from what the other chain has committed   *)
(* and every successful result is committed.  The chains may already hold  *)
(* an end of an earlier, unfinished handshake and may be at any height.    *)
(***************************************************************************)
\* The relayer's position: the steps done and the ids the chains assigned.
Run(stage, a, b) == [handler |-> "Run", stage |-> stage, a |-> a, b |-> b]

\* An end an earlier Init left behind.
EarlierEnd(ch) ==
    ConnectionEnd("Init", ClientIdOf(ch),
                  Counterparty(ClientIdOf(Other(ch)), None, PrefixOf(Other(ch))),
                  <<1>>, 0)

RunStores(ch) == {EmptyStore, [i \in {0} |-> EarlierEnd(ch)]}

InitRun ==
    /\ store \in [A : RunStores("A"), B : RunStores("B")]
    /\ host \in [Chains -> 1..(MaxHeight - 2)]
    /\ client = [c \in Chains |->
                    [height |-> host[Other(c)], root |-> store[Other(c)]]]
    /\ inflight = Run(0, 0, 0)
    /\ out = NotRun
    /\ acked = NoAck

RunInit ==
    /\ inflight.stage = 0
    /\ \E vs \in InitVersionLists, d \in Delays :
          LET a == connection_counter(Ctx("A"))
              msg == MsgConnectionOpenInit(ClientIdOf("A"),
                         Counterparty(ClientIdOf("B"), None, PrefixOf("B")), vs, d)
          IN /\ Commit("Init", "A", Some(a), init_process(Ctx("A"), msg))
             /\ inflight' = Run(1, a, 0)
    /\ UNCHANGED acked

RunTry ==
    /\ inflight.stage = 1
    /\ out.res.ok
    /\ LET b == connection_counter(Ctx("B"))
           init_end == store["A"][inflight.a]
           msg == MsgConnectionOpenTry(None, ClientIdOf("B"),
                      Counterparty(ClientIdOf("A"), Some(inflight.a), PrefixOf("A")),
                      init_end.versions, init_end.delay_period, Some("B"),
                      NetProofs("B", Some(ConsensusProof(host["B"], "Genuine"))))
       IN /\ Commit("Try", "B", Some(b), try_process(Ctx("B"), msg))
          /\ inflight' = Run(2, inflight.a, b)
    /\ UNCHANGED acked

RunAck ==
    /\ inflight.stage = 2
    /\ out.res.ok
    /\ LET try_end == store["B"][inflight.b]
           msg == MsgConnectionOpenAck(inflight.a, inflight.b, Some("A"),
                      NetProofs("A", Some(ConsensusProof(host["A"], "Genuine"))),
                      try_end.versions[1])
       IN /\ Commit("Ack", "A", Some(inflight.a), process(Ctx("A"), msg))
          /\ inflight' = Run(3, inflight.a, inflight.b)
    /\ UNCHANGED acked

RunConfirm ==
    /\ inflight.stage = 3
    /\ out.res.ok
    /\ LET msg == MsgConnectionOpenConfirm(inflight.b, NetProofs("B", None))
       IN /\ Commit("Confirm", "B", Some(inflight.b),
                    confirm_process(Ctx("B"), msg))
          /\ inflight' = Run(4, inflight.a, inflight.b)
    /\ UNCHANGED acked

NextRun == RunInit \/ RunTry \/ RunAck \/ RunConfirm

\* The relayer keeps submitting while it has a step to submit.
SpecRun == InitRun /\ [][NextRun]_vars /\ WF_vars(NextRun)

(***************************************************************************)
(* Claims about one invocation of `process` (checked under SpecAck).       *)
(***************************************************************************)
\* process has returned and the caller has not committed yet: the store is
\* still the context the handler ran against.
AckReturned == inflight.handler = "Ack" /\ out.handler = "Ack"

AckMsg == inflight.msg
AckCtx == Ctx(inflight.chain)
AckStored == store[inflight.chain][AckMsg.connection_id]
AckExists == AckMsg.connection_id \in DOMAIN store[inflight.chain]

\* The three membership proofs verify for the message in flight.
AckProofsVerify ==
    LET conn_end == open_conn_end(AckStored, AckMsg)
        h == AckMsg.proofs.height
    IN /\ verify_connection_proof(AckCtx, h, conn_end,
              expected_conn(AckCtx, conn_end, AckMsg), h,
              AckMsg.proofs.object_proof) = NoError
       /\ verify_client_proof(AckCtx, h, conn_end, AckMsg.client_state[1], h,
              AckMsg.proofs.client_proof[1]) = NoError
       /\ verify_consensus_proof(AckCtx, h, conn_end,
              AckMsg.proofs.consensus_proof[1]) = NoError

\* The case of C1: Init end holding the version, artefacts present, fresh
\* consensus height, valid self client, proofs verifying.
C1_Case ==
    /\ AckReturned
    /\ AckExists
    /\ AckStored.state = "Init"
    /\ AckMsg.version \in Range(AckStored.versions)
    /\ AckMsg.client_state # None
    /\ AckMsg.proofs.client_proof # None
    /\ AckMsg.proofs.consensus_proof # None
    /\ check_client_consensus_height(AckCtx, consensus_height(AckMsg)) = NoError
    /\ validate_self_client(AckCtx, AckMsg.client_state[1]) = NoError
    /\ AckProofsVerify

\* C1: an Ack on an Init end holding the message's version, with all
\* artefacts present and every check passing, succeeds; the returned end is
\* Open, its counterparty connection id is Some(msg.counterparty_connection_id)
\* and exactly one event, OpenAckConnection at the host height, is emitted.
C1_AckOnInitSucceeds ==
    C1_Case =>
        /\ out.res.ok
        /\ out.res.result[1].connection_end.state = "Open"
        /\ out.res.result[1].connection_end.counterparty.connection_id
               = Some(AckMsg.counterparty_connection_id)
        /\ Len(out.res.events) = 1
        /\ out.res.events[1].kind = "OpenAckConnection"
        /\ out.res.events[1].height = host[inflight.chain]

\* C1 witness: the case happens with a proof height other than the host height.
C1_Witness ==
    /\ C1_Case
    /\ out.res.ok
    /\ AckMsg.proofs.height # host[inflight.chain]

\* C2 as stated: an Ack for an absent connection id fails with
\* ConnectionNotFound carrying that id, whatever the rest of the message.
C2_Original ==
    (AckReturned /\ ~AckExists) =>
        /\ ~out.res.ok
        /\ out.res.err.kind = "ConnectionNotFound"
        /\ out.res.err.connection_id = Some(AckMsg.connection_id)

\* C2 amended: an Ack for an absent connection id whose consensus proof is
\* absent or passes the freshness check fails with ConnectionNotFound
\* carrying that id; one whose consensus height fails the freshness check
\* fails with that check's error instead.
C2_NotFoundAfterFreshness ==
    (AckReturned /\ ~AckExists) =>
        /\ ~out.res.ok
        /\ consensus_height_error(AckCtx, AckMsg) = NoError =>
              /\ out.res.err.kind = "ConnectionNotFound"
              /\ out.res.err.connection_id = Some(AckMsg.connection_id)
        /\ consensus_height_error(AckCtx, AckMsg) # NoError =>
              out.res.err.kind \in {"InvalidConsensusHeight", "StaleConsensusHeight"}

\* C2 witness: a fresh Ack for an absent id on a chain that stores another end.
C2_Witness ==
    /\ AckReturned
    /\ ~AckExists
    /\ DOMAIN store[inflight.chain] # {}
    /\ AckMsg.proofs.consensus_proof # None
    /\ out.res.err.kind = "ConnectionNotFound"

\* C3 as stated: an Ack for a stored end that is already Open fails with
\* ConnectionMismatch carrying that id, whatever the rest of the message.
C3_Original ==
    (AckReturned /\ AckExists /\ AckStored.state = "Open") =>
        /\ ~out.res.ok
        /\ out.res.err.kind = "ConnectionMismatch"
        /\ out.res.err.connection_id = Some(AckMsg.connection_id)

\* C3 amended: an Ack for a stored end that is already Open, whose consensus
\* proof is absent or passes the freshness check, fails with
\* ConnectionMismatch carrying that id; one whose consensus height fails the
\* freshness check fails with that check's error instead.
C3_OpenIsMismatchAfterFreshness ==
    (AckReturned /\ AckExists /\ AckStored.state = "Open") =>
        /\ ~out.res.ok
        /\ consensus_height_error(AckCtx, AckMsg) = NoError =>
              /\ out.res.err.kind = "ConnectionMismatch"
              /\ out.res.err.connection_id = Some(AckMsg.connection_id)
        /\ consensus_height_error(AckCtx, AckMsg) # NoError =>
              out.res.err.kind \in {"InvalidConsensusHeight", "StaleConsensusHeight"}

\* C3 witness: a fresh Ack, its version held by the Open end, is rejected.
C3_Witness ==
    /\ AckReturned
    /\ AckExists
    /\ AckStored.state = "Open"
    /\ AckMsg.version \in Range(AckStored.versions)
    /\ AckMsg.proofs.consensus_proof # None
    /\ out.res.err.kind = "ConnectionMismatch"

\* The condition C4 names for getting past the state check.
C4_Cond ==
    \/ /\ AckStored.state = "Init"
       /\ \E i \in 1..Len(AckStored.versions) : AckStored.versions[i] = AckMsg.version
    \/ /\ AckStored.state = "TryOpen"
       /\ AckStored.versions # <<>>
       /\ Head(AckStored.versions) = AckMsg.version

\* C4: with the connection stored and the freshness check not failing, Ack
\* gets past the state check iff (Init and the versions contain msg.version)
\* or (TryOpen and the first version is msg.version); otherwise it fails with
\* ConnectionMismatch carrying msg.connection_id.
C4_StateCheck ==
    (AckReturned /\ AckExists /\ consensus_height_error(AckCtx, AckMsg) = NoError) =>
        /\ C4_Cond <=> out.res.err.kind # "ConnectionMismatch"
        /\ ~C4_Cond =>
              /\ ~out.res.ok
              /\ out.res.err = Error("ConnectionMismatch", Some(AckMsg.connection_id), "")

\* C4 witness: a TryOpen end holding msg.version, but not first, is rejected.
C4_Witness ==
    /\ AckReturned
    /\ AckExists
    /\ consensus_height_error(AckCtx, AckMsg) = NoError
    /\ AckStored.state = "TryOpen"
    /\ AckMsg.version \in Range(AckStored.versions)
    /\ Head(AckStored.versions) # AckMsg.version
    /\ out.res.err.kind = "ConnectionMismatch"

\* C10: Ack returns a result only if the supplied client state describes the
\* host chain and the connection, client-state and consensus-state
\* membership proofs all verify against the consensus state at the proof
\* height; a failed Ack returns no connection end and no event.
C10_ResultOnlyIfVerified ==
    AckReturned =>
        /\ out.res.ok =>
              /\ AckMsg.client_state = Some(inflight.chain)
              /\ client[inflight.chain].height = AckMsg.proofs.height
              /\ AckMsg.proofs.object_proof = "Genuine"
              /\ AckMsg.counterparty_connection_id
                     \in DOMAIN client[inflight.chain].root
              /\ LET e == client[inflight.chain].root[AckMsg.counterparty_connection_id]
                 IN /\ e.state = "TryOpen"
                    /\ e.versions = <<AckMsg.version>>
                    /\ e.counterparty.connection_id = Some(AckMsg.connection_id)
              /\ AckMsg.proofs.client_proof = Some("Genuine")
              /\ AckMsg.proofs.consensus_proof # None
              /\ AckMsg.proofs.consensus_proof[1].proof = "Genuine"
        /\ ~out.res.ok => (out.res.result = None /\ out.res.events = <<>>)

\* C10 witness: both outcomes' cases: here a verified Ack that returned Open.
C10_Witness ==
    /\ AckReturned
    /\ out.res.ok
    /\ out.res.result[1].connection_end.state = "Open"
    /\ AckStored.state = "TryOpen"

\* The end the applied Ack committed, as C9 expects it to stay.
C9_EndKept ==
    LET m == acked.msg[1]
        e == store[acked.chain][m.connection_id]
    IN /\ e.state = "Open"
       /\ e.versions = <<m.version>>
       /\ e.counterparty.connection_id = Some(m.counterparty_connection_id)

\* C9 as stated: the applied Ack, processed again, fails on the state
\* precondition, returns no result and no event, and the stored end keeps
\* its state, version and counterparty connection id.
C9_Original ==
    out.replay =>
        /\ ~out.res.ok
        /\ out.res.err.kind = "ConnectionMismatch"
        /\ out.res.result = None
        /\ out.res.events = <<>>
        /\ C9_EndKept

\* C9 amended: the applied Ack, processed again, fails, returns no result
\* and no event, and the stored end keeps its state, version and
\* counterparty connection id; it fails on the state precondition
\* (ConnectionMismatch) unless the host has moved on so far that the
\* message's consensus height is older than the oldest height the host
\* keeps, in which case the freshness check, which runs first, rejects it.
C9_ReplayFails ==
    out.replay =>
        /\ ~out.res.ok
        /\ out.res.result = None
        /\ out.res.events = <<>>
        /\ C9_EndKept
        /\ IF consensus_height(acked.msg[1])
                 < host_oldest_height(Ctx(acked.chain))
           THEN out.res.err.kind = "StaleConsensusHeight"
           ELSE out.res.err =
                    Error("ConnectionMismatch",
                          Some(acked.msg[1].connection_id), "")

\* C9 witness: a replay rejected by the state precondition.
C9_Witness ==
    /\ out.replay
    /\ out.res.err.kind = "ConnectionMismatch"
    /\ C9_EndKept

(***************************************************************************)
(* Claims about sequences of committed handshake steps (checked under     *)
(* Spec).                                                                  *)
(***************************************************************************)
\* The state of the end stored under id; Uninitialized when there is none.
StateOf(connections, id) ==
    IF id \in DOMAIN connections THEN connections[id].state ELSE "Uninitialized"

\* The moves C5 allows.
C5_Moves ==
    {<<"Uninitialized", "Init">>, <<"Uninitialized", "TryOpen">>,
     <<"Init", "Open">>, <<"TryOpen", "Open">>}

\* C5 as stated: the state of every stored end only moves
\* Uninitialized->Init, Uninitialized->TryOpen, Init->Open or TryOpen->Open.
C5_Original ==
    [][\A ch \in Chains, id \in ConnIds :
          \/ StateOf(store'[ch], id) = StateOf(store[ch], id)
          \/ <<StateOf(store[ch], id), StateOf(store'[ch], id)>> \in C5_Moves]_vars

\* C5 amended: the state of every stored end only moves
\* Uninitialized->Init, Uninitialized->TryOpen, Init->TryOpen (a Try that
\* names an existing Init end), Init->Open or TryOpen->Open: it never moves
\* backward and once Open it never changes state again.
C5_StateOnlyAdvances ==
    [][\A ch \in Chains, id \in ConnIds :
          \/ StateOf(store'[ch], id) = StateOf(store[ch], id)
          \/ <<StateOf(store[ch], id), StateOf(store'[ch], id)>>
                 \in C5_Moves \cup {<<"Init", "TryOpen">>}]_vars

\* C5 witness: a Try that named an existing Init end has just been committed
\* and the end is now in TryOpen, while an Ack has opened an end on the
\* other chain.
C5_Witness ==
    /\ out.handler = "Try"
    /\ out.res.ok
    /\ out.res.result[1].connection_id_state = "Reused"
    /\ StateOf(store[out.chain], out.connection_id[1]) = "TryOpen"
    /\ \E id \in DOMAIN store[Other(out.chain)] :
          store[Other(out.chain)][id].state = "Open"

\* C6: once counterparty.connection_id of a stored end is Some(x), no
\* committed step replaces it by a different identifier.
C6_Original ==
    [][\A ch \in Chains : \A id \in DOMAIN store[ch] :
          store[ch][id].counterparty.connection_id # None =>
              store'[ch][id].counterparty.connection_id
                  = store[ch][id].counterparty.connection_id]_vars

\* C7: an end that an Ack opens holds exactly one version, an element of the
\* list it held before the Ack and the one the counterparty's proven TryOpen
\* end holds; the versions of an Open end never change afterwards.
C7_AgreedVersion ==
    [][\A ch \in Chains : \A id \in DOMAIN store[ch] :
          /\ ( /\ out'.handler = "Ack"
               /\ out'.chain = ch
               /\ out'.connection_id = Some(id)
               /\ out'.res.ok )
             => /\ store'[ch][id].state = "Open"
                /\ Len(store'[ch][id].versions) = 1
                /\ store'[ch][id].versions[1] \in Range(store[ch][id].versions)
                /\ LET x == store'[ch][id].counterparty.connection_id[1]
                   IN /\ client[ch].root[x].state = "TryOpen"
                      /\ client[ch].root[x].versions = store'[ch][id].versions
          /\ store[ch][id].state = "Open"
             => store'[ch][id].versions = store[ch][id].versions]_vars

\* C7 witness: an Ack has opened an end with version 2, which only the
\* two-element list <<2, 1>> offers.
C7_Witness ==
    /\ out.handler = "Ack"
    /\ out.res.ok
    /\ store[out.chain][out.connection_id[1]].state = "Open"
    /\ store[out.chain][out.connection_id[1]].versions = <<2>>

(***************************************************************************)
(* Claims about an honest run (checked under SpecRun).                     *)
(***************************************************************************)
\* The run is over and both ends are Open with one common version and with
\* each other's connection id.
RunConverged ==
    /\ inflight.stage = 4
    /\ LET end_a == store["A"][inflight.a]
           end_b == store["B"][inflight.b]
       IN /\ end_a.state = "Open"
          /\ end_b.state = "Open"
          /\ Len(end_a.versions) = 1
          /\ end_a.versions = end_b.versions
          /\ end_a.counterparty.connection_id = Some(inflight.b)
          /\ end_b.counterparty.connection_id = Some(inflight.a)

\* C8: in a run Init on A, Try on B, Ack on A, Confirm on B with proofs of
\* the other chain's committed end and every result committed, every step
\* succeeds and the run ends with both ends Open, holding the same single
\* version and each other's connection id.
C8_RunConverges ==
    /\ [](out.handler # "None" => out.res.ok)
    /\ <>[]RunConverged

\* C8 witness: the Confirm of a run has returned; A offered <<2, 1>> and
\* both chains held an earlier end, so the run's ids are not 0.
C8_Witness ==
    /\ inflight.handler = "Run"
    /\ inflight.stage = 4
    /\ out.handler = "Confirm"
    /\ inflight.a = 1
    /\ inflight.b = 1
    /\ store["A"][1].versions = <<2>>

(***************************************************************************)
(* Further claims about one invocation of `process` (checked under        *)
(* SpecAck).                                                               *)
(***************************************************************************)
\* C11: every successful Ack carries a consensus proof whose height does
\* not exceed the host height of the chain that ran the handler; an Ack
\* without a consensus proof never succeeds.
C11_SuccessIsFresh ==
    (AckReturned /\ out.res.ok) =>
        /\ AckMsg.proofs.consensus_proof # None
        /\ consensus_height(AckMsg) <= host[inflight.chain]

\* C11 witness: a successful Ack whose consensus height is exactly the host
\* height, the last one the freshness check lets through.
C11_Witness ==
    /\ AckReturned
    /\ out.res.ok
    /\ AckMsg.proofs.consensus_proof # None
    /\ consensus_height(AckMsg) = host[inflight.chain]
    /\ host[inflight.chain] < MaxHeight

C13_Missing ==
    IF AckMsg.client_state = None THEN "client state"
    ELSE IF AckMsg.proofs.client_proof = None THEN "client proof"
    ELSE "consensus proof"

\* The text of the error for a missing artefact.
C13_Text(artefact) ==
    IF artefact = "client state" THEN "client state is required in connOpenTry"
    ELSE IF artefact = "client proof" THEN "client proof is required in connOpenTry"
    ELSE "consensus proof is required in connOpenTry"

\* An Ack that got past the lookup and the state check and lacks an artefact.
C13_Case ==
    /\ AckReturned
    /\ consensus_height_error(AckCtx, AckMsg) = NoError
    /\ AckExists
    /\ state_is_consistent(AckStored, AckMsg)
    /\ \/ AckMsg.client_state = None
       \/ AckMsg.proofs.client_proof = None
       \/ AckMsg.proofs.consensus_proof = None

\* C13: an Ack past the lookup and the state check that lacks the client
\* state, the client proof or the consensus proof fails with an
\* implementation-specific error naming the (first) missing artefact, a
\* different text for each, whether or not the proofs it does carry would
\* verify: no verification error is ever reported for it.
C13_MissingArtefact ==
    /\ C13_Case =>
          /\ ~out.res.ok
          /\ out.res.err = Error("ImplementationSpecific", None, C13_Text(C13_Missing))
    /\ \A a, b \in {"client state", "client proof", "consensus proof"} :
          a # b => C13_Text(a) # C13_Text(b)

\* C13 witness: only the consensus proof is missing and the connection
\* proof supplied is forged; the error names the consensus proof.
C13_Witness ==
    /\ C13_Case
    /\ AckMsg.client_state # None
    /\ AckMsg.proofs.client_proof # None
    /\ AckMsg.proofs.object_proof = "Forged"
    /\ out.res.err.text = "consensus proof is required in connOpenTry"

\* C14: a call of process leaves the context as it was: every stored end,
\* the host height and the light client are unchanged when it returns,
\* with a result or with an error.  On success the Open end exists only in
\* the returned result, the stored end still being in its earlier state;
\* on failure no result and no event is returned.
C14_ContextUntouched ==
    [][(out' # out /\ out'.handler = "Ack") =>
          /\ store' = store
          /\ host' = host
          /\ client' = client
          /\ out'.res.ok =>
                /\ out'.res.result[1].connection_end.state = "Open"
                /\ store'[out'.chain][out'.connection_id[1]].state
                       \in {"Init", "TryOpen"}
          /\ ~out'.res.ok =>
                /\ out'.res.result = None
                /\ out'.res.events = <<>>]_vars

\* C14 witness: process has returned an Open end with a new counterparty
\* connection id and a single version, and the stored end is still the Init
\* end with no counterparty connection id and two versions.
C14_Witness ==
    /\ AckReturned
    /\ out.res.ok
    /\ out.res.result[1].connection_end.state = "Open"
    /\ AckStored.state = "Init"
    /\ AckStored.counterparty.connection_id = None
    /\ Len(AckStored.versions) = 2

\* The ten checks of C17 for the message in flight, in the claim's order:
\* each entry is the error its check would report, NoError if it passes.
\* A check that needs what an earlier check establishes (the stored end, an
\* artefact) counts as passing when that is missing.
C17_Checks ==
    LET present == /\ AckExists
                   /\ AckMsg.client_state # None
                   /\ AckMsg.proofs.client_proof # None
                   /\ AckMsg.proofs.consensus_proof # None
        h == AckMsg.proofs.height
        conn_end == open_conn_end(AckStored, AckMsg)
    IN << IF AckMsg.proofs.consensus_proof # None
          THEN check_client_consensus_height(AckCtx, consensus_height(AckMsg))
          ELSE NoError,
          IF AckExists THEN NoError
          ELSE Error("ConnectionNotFound", Some(AckMsg.connection_id), ""),
          IF AckExists /\ ~C4_Cond
          THEN Error("ConnectionMismatch", Some(AckMsg.connection_id), "")
          ELSE NoError,
          IF AckMsg.client_state = None
          THEN Error("ImplementationSpecific", None, C13_Text("client state"))
          ELSE NoError,
          IF AckMsg.proofs.client_proof = None
          THEN Error("ImplementationSpecific", None, C13_Text("client proof"))
          ELSE NoError,
          IF AckMsg.proofs.consensus_proof = None
          THEN Error("ImplementationSpecific", None, C13_Text("consensus proof"))
          ELSE NoError,
          IF AckMsg.client_state # None /\ AckMsg.client_state # Some(inflight.chain)
          THEN Error("Ics02Client", None, "InvalidSelfClient")
          ELSE NoError,
          IF present
          THEN verify_connection_proof(AckCtx, h, conn_end,
                   expected_conn(AckCtx, conn_end, AckMsg), h,
                   AckMsg.proofs.object_proof)
          ELSE NoError,
          IF present
          THEN verify_client_proof(AckCtx, h, conn_end, AckMsg.client_state[1],
                   h, AckMsg.proofs.client_proof[1])
          ELSE NoError,
          IF present
          THEN verify_consensus_proof(AckCtx, h, conn_end,
                   AckMsg.proofs.consensus_proof[1])
          ELSE NoError >>

C17_Failing == {i \in 1..10 : C17_Checks[i] # NoError}

\* C17: Ack reports the error of the lowest-numbered failing check among
\* (1) consensus-height freshness, when a consensus proof is supplied,
\* (2) connection lookup, (3) state and version consistency, (4) client
\* state present, (5) client proof present, (6) consensus proof present,
\* (7) self-client validation, (8) connection proof, (9) client-state
\* proof, (10) consensus-state proof; it succeeds iff none fails.
C17_FirstFailingCheck ==
    AckReturned =>
        IF C17_Failing = {}
        THEN out.res.ok
        ELSE /\ ~out.res.ok
             /\ \E i \in C17_Failing :
                   /\ \A j \in C17_Failing : i <= j
                   /\ out.res.err = C17_Checks[i]

\* C17 witness: self-client validation, the connection proof and the
\* consensus-state proof all fail; the self-client error is reported.
C17_Witness ==
    /\ AckReturned
    /\ {7, 8, 10} \subseteq C17_Failing
    /\ out.res.err.kind = "Ics02Client"

\* The end the counterparty has committed under the id the message names,
\* as the light client of the chain running the handler holds it.
C18_Committed == client[inflight.chain].root[AckMsg.counterparty_connection_id]

\* An Ack for a stored end, with a committed counterparty end to compare.
C18_Case ==
    /\ AckReturned
    /\ AckExists
    /\ AckMsg.counterparty_connection_id \in DOMAIN client[inflight.chain].root

\* C18: the end Ack requires the counterparty to have committed is state
\* TryOpen, client id = the local end's counterparty client id,
\* counterparty = (local client id, msg.connection_id, local commitment
\* prefix), versions = [msg.version], delay period = the local end's; an
\* Ack fails whenever the counterparty's committed end is in another state,
\* holds another version list or delay period, or points back at another
\* connection id.
C18_ExpectedEnd ==
    C18_Case =>
        /\ expected_conn(AckCtx, open_conn_end(AckStored, AckMsg), AckMsg)
              = [state |-> "TryOpen",
                 client_id |-> AckStored.counterparty.client_id,
                 counterparty |-> [client_id |-> AckStored.client_id,
                                   connection_id |-> Some(AckMsg.connection_id),
                                   prefix |-> PrefixOf(inflight.chain)],
                 versions |-> <<AckMsg.version>>,
                 delay_period |-> AckStored.delay_period]
        /\ ( \/ C18_Committed.state # "TryOpen"
             \/ C18_Committed.versions # <<AckMsg.version>>
             \/ C18_Committed.delay_period # AckStored.delay_period
             \/ C18_Committed.counterparty.connection_id
                    # Some(AckMsg.connection_id) )
           => ~out.res.ok

\* C18 witness: everything else passing, the Ack fails on the connection
\* proof because the committed end, a TryOpen end pointing back at the
\* right id with the right version, has another delay period.
C18_Witness ==
    /\ C18_Case
    /\ C18_Committed.state = "TryOpen"
    /\ C18_Committed.versions = <<AckMsg.version>>
    /\ C18_Committed.counterparty.connection_id = Some(AckMsg.connection_id)
    /\ C18_Committed.delay_period # AckStored.delay_period
    /\ AckMsg.proofs.object_proof = "Genuine"
    /\ out.res.err.kind = "VerifyConnectionState"

\* C19: a successful Ack returns connection_id = msg.connection_id,
\* provenance Reused, and the stored end with only its state (Open),
\* versions ([msg.version]) and counterparty connection id
\* (Some(msg.counterparty_connection_id)) replaced; client id, counterparty
\* client id, counterparty prefix and delay period are the stored ones.
C19_ResultFrame ==
    (AckReturned /\ out.res.ok) =>
        LET r == out.res.result[1]
            e == r.connection_end
        IN /\ r.connection_id = AckMsg.connection_id
           /\ r.connection_id_state = "Reused"
           /\ e.state = "Open"
           /\ e.versions = <<AckMsg.version>>
           /\ e.counterparty.connection_id = Some(AckMsg.counterparty_connection_id)
           /\ e.client_id = AckStored.client_id
           /\ e.counterparty.client_id = AckStored.counterparty.client_id
           /\ e.counterparty.prefix = AckStored.counterparty.prefix
           /\ e.delay_period = AckStored.delay_period
           /\ DOMAIN e = DOMAIN AckStored

\* C19 witness: a successful Ack on a stored end with a delay period, two
\* versions and a counterparty connection id other than the message's.
C19_Witness ==
    /\ AckReturned
    /\ out.res.ok
    /\ AckStored.delay_period = 1
    /\ AckStored.versions = <<1, 2>>
    /\ AckStored.counterparty.connection_id # None
    /\ AckStored.counterparty.connection_id
           # Some(AckMsg.counterparty_connection_id)

(***************************************************************************)
(* Further claims about sequences of committed handshake steps (checked   *)
(* under Spec).                                                            *)
(***************************************************************************)
\* A connection end appears in a store only by a committed Init or Try for
\* its id on that chain.
EndsMadeByInitOrTry ==
    \A ch \in Chains : \A id \in ConnIds :
        (id \notin DOMAIN store[ch] /\ id \in DOMAIN store'[ch]) =>
            /\ out'.handler \in {"Init", "Try"}
            /\ out'.chain = ch
            /\ out'.connection_id = Some(id)
            /\ out'.res.ok

\* The step delivers an Ack for an id its chain stores no end for.
AckOutOfOrder ==
    /\ out'.handler = "Ack"
    /\ out'.connection_id[1] \notin DOMAIN store[out'.chain]

\* C16 as stated: an Ack succeeds only for an id that a committed Init or
\* Try created on that chain; an Ack delivered before either is rejected by
\* the lookup or state precondition and leaves no end for the id behind.
C16_Original ==
    [][/\ EndsMadeByInitOrTry
       /\ (out'.handler = "Ack" /\ out'.res.ok) =>
              out'.connection_id[1] \in DOMAIN store[out'.chain]
       /\ AckOutOfOrder =>
              /\ ~out'.res.ok
              /\ out'.res.err.kind \in {"ConnectionNotFound", "ConnectionMismatch"}
              /\ out'.connection_id[1] \notin DOMAIN store'[out'.chain]]_vars

\* C16 amended: an Ack succeeds only for an id that a committed Init or Try
\* created on that chain; an Ack delivered before either is rejected, by
\* the lookup (ConnectionNotFound) or, when it carries a consensus proof
\* whose height fails the freshness check, by that check, which runs
\* first; it leaves no end for the id behind.
C16_AckNeedsInitOrTry ==
    [][/\ EndsMadeByInitOrTry
       /\ (out'.handler = "Ack" /\ out'.res.ok) =>
              out'.connection_id[1] \in DOMAIN store[out'.chain]
       /\ AckOutOfOrder =>
              /\ ~out'.res.ok
              /\ out'.res.err.kind \in {"ConnectionNotFound",
                                        "InvalidConsensusHeight",
                                        "StaleConsensusHeight"}
              /\ out'.connection_id[1] \notin DOMAIN store'[out'.chain]]_vars

\* C16 witness: the counterparty has committed its Try, and an Ack for an
\* id this chain has no end for has been rejected by the lookup.
C16_Witness ==
    /\ out.handler = "Ack"
    /\ out.res.err.kind = "ConnectionNotFound"
    /\ out.connection_id[1] \notin DOMAIN store[out.chain]
    /\ DOMAIN store[out.chain] # {}
    /\ \E id \in DOMAIN store[Other(out.chain)] :
          store[Other(out.chain)][id].state = "TryOpen"

\* The step delivers an Ack or a Confirm for an end that is already Open.
OpenAgain ==
    /\ out'.handler \in {"Ack", "Confirm"}
    /\ StateOf(store[out'.chain], out'.connection_id[1]) = "Open"

\* A successful Ack or Confirm opens an end that was not Open.
OpensOnce ==
    (out'.handler \in {"Ack", "Confirm"} /\ out'.res.ok) =>
        /\ StateOf(store[out'.chain], out'.connection_id[1]) \in {"Init", "TryOpen"}
        /\ StateOf(store'[out'.chain], out'.connection_id[1]) = "Open"

\* C20 as stated: for each end at most one Ack-or-Confirm step succeeds;
\* every Ack and every Confirm for an end that is already Open is rejected
\* with ConnectionMismatch.
C20_Original ==
    [][/\ OpensOnce
       /\ OpenAgain =>
              /\ ~out'.res.ok
              /\ out'.res.err.kind = "ConnectionMismatch"]_vars

\* C20 amended: for each end at most one Ack-or-Confirm step succeeds;
\* every Confirm for an end that is already Open is rejected with
\* ConnectionMismatch, and every Ack for it is rejected, with
\* ConnectionMismatch or, when its consensus height fails the freshness
\* check, which runs first, with that check's error.
C20_OpensAtMostOnce ==
    [][/\ OpensOnce
       /\ OpenAgain =>
              /\ ~out'.res.ok
              /\ \/ out'.res.err.kind = "ConnectionMismatch"
                 \/ /\ out'.handler = "Ack"
                    /\ out'.res.err.kind \in {"InvalidConsensusHeight",
                                              "StaleConsensusHeight"}]_vars

\* C20 witness: a Confirm has been rejected with ConnectionMismatch for an
\* end that an Ack opened (its counterparty end is still in TryOpen, so no
\* Confirm can have opened it).
C20_Witness ==
    /\ out.handler = "Confirm"
    /\ out.res.err.kind = "ConnectionMismatch"
    /\ StateOf(store[out.chain], out.connection_id[1]) = "Open"
    /\ LET e == store[out.chain][out.connection_id[1]]
       IN /\ e.counterparty.connection_id # None
          /\ StateOf(store[Other(out.chain)], e.counterparty.connection_id[1])
                 = "TryOpen"

====
